---- MODULE Spec2Model ----
(***************************************************************************)
(* SmartFlow AI: the 5-year multi-stage production simulator of app.py.    *)
(*                                                                         *)
(* app.py is a Streamlit script: every interaction runs it top to bottom   *)
(* against st.session_state.  The model keeps that dictionary as one       *)
(* variable and has one action per interaction: pressing "Simulate This    *)
(* Year", pressing "Restart Simulation", and a plain re-render.            *)
(*                                                                         *)
(* Numbers.  The script computes in floats.  The model computes on fixed   *)
(* grids and rounds every product and quotient to the grid (half to even,  *)
(* as float operations do at their own precision):                         *)
(*   quantities of units (demand, capacity, WIP, inventory): tenths,       *)
(*   money: whole rupees,                                                  *)
(*   rates (growth, inflation, breakdown, maintenance): percent.           *)
(* Sums, differences, min and max are exact on a grid.                     *)
(***************************************************************************)
EXTENDS Integers, Sequences, FiniteSets, TLC

VARIABLES session_state, last

vars == <<session_state, last>>

\* ------------------------------------------------------------- arithmetic

Min(a, b) == IF a <= b THEN a ELSE b

Max(a, b) == IF a >= b THEN a ELSE b

\* n / d rounded to the nearest integer, halves to the even one (n >= 0, d > 0).
RoundDiv(n, d) ==
    LET q == n \div d
        r == n % d
    IN  IF 2 * r < d THEN q
        ELSE IF 2 * r > d THEN q + 1
        ELSE IF q % 2 = 0 THEN q ELSE q + 1

\* x * n / d rounded as RoundDiv, without forming x * n.
MulDiv(x, n, d) == (x \div d) * n + RoundDiv((x % d) * n, d)

\* A whole number of units on the tenths grid.
Units(n) == n * 10

\* x * (1 + pct / 100)
TimesOnePlus(x, pct) == MulDiv(x, 100 + pct, 100)

\* quantity (tenths of a unit) * rate (rupees per unit), in rupees
Cost(quantity, rate) == RoundDiv(quantity * rate, Units(1))

\* Python's round(x) of a quantity: to the nearest whole unit, halves to even.
round(quantity) == RoundDiv(quantity, Units(1))

\* ------------------------------------------------------- fixed parameters

BASE_MONTHLY_DEMAND == 10000
\* 0.08, in percent
BREAKDOWN_PROB == 8
AVAILABLE_HOURS_MONTH == 160
UNITS_PER_MACHINE_PER_HOUR == 7

BODY_FACTOR == 5
PAINT_FACTOR == 7
ENGINE_FACTOR == 3
FINAL_FACTOR == 4

MACHINE_COST_PER_HOUR == 400
LABOR_COST_PER_HOUR == 50
SETUP_COST_PER_MACHINE == 100000
HOLDING_COST_PER_UNIT == 50
SHORTAGE_COST_PER_UNIT == 200
WIP_HOLDING_COST_PER_UNIT == 30

\* The last year that offers a decision (if current_year <= 5).
LAST_YEAR == 5

\* ------------------------------------------------------------ session state

defaults ==
    [ year           |-> 1,
      monthly_demand |-> Units(BASE_MONTHLY_DEMAND),
      fg_inventory   |-> 0,
      wip_body       |-> 0,
      wip_paint      |-> 0,
      wip_engine     |-> 0,
      results        |-> <<>>,
      total_cost     |-> 0,
      total_units    |-> 0 ]

\* for k, v in defaults.items(): if k not in st.session_state: ... = v
init_session_state(s) ==
    [ k \in (DOMAIN s) \cup (DOMAIN defaults) |->
        IF k \in DOMAIN s THEN s[k] ELSE defaults[k] ]

\* A slip: a reset that forgets the year log and the running totals.
clear_scalars(s) ==
    [ k \in (DOMAIN s) \cap {"results", "total_cost", "total_units"} |-> s[k] ]

\* st.session_state.clear(): no key is left.
clear(s) == [ k \in {} |-> s[k] ]

\* ------------------------------------------------------------------ inputs

\* The machine counts explored: the widgets' minimum and MaxMachines
\* (the widgets allow up to 20; 4 is their initial value).
MIN_MACHINES == 1
MaxMachines == 4

decision(b, p, e, f, ot, m) ==
    [ machines_body   |-> b,
      machines_paint  |-> p,
      machines_engine |-> e,
      machines_final  |-> f,
      overtime        |-> ot,
      maintenance_eff |-> m ]

\* The decisions the widgets can deliver, of which the model explores:
\* every stage at MaxMachines with the widgets' initial overtime and
\* maintenance; and a plan that starves paint and final (1 machine each),
\* with the largest overtime and full maintenance.
Decisions ==
    { decision(MaxMachines, MaxMachines, MaxMachines, MaxMachines, 20, 50),
      decision(MaxMachines, MIN_MACHINES, MaxMachines, MIN_MACHINES, 200, 100) }

\* np.random.uniform(low, high), in percent: the two ends of the range.
uniform(low, high) == {low, high}

DemandGrowthDraws == uniform(-10, 25)

InflationDraws == uniform(6, 12)

\* ---------------------------------------------------------- the year's run

yearly_hours == AVAILABLE_HOURS_MONTH * 12

total_machines(d) ==
    d.machines_body + d.machines_paint + d.machines_engine + d.machines_final

machine_cost_preview(d) == MACHINE_COST_PER_HOUR * total_machines(d) * yearly_hours

setup_cost_preview(d) == SETUP_COST_PER_MACHINE * total_machines(d)

labor_cost_preview(d) == LABOR_COST_PER_HOUR * d.overtime * 12

\* BREAKDOWN_PROB * (1 - maintenance_eff), in hundredths of a percent
effective_breakdown(d) == BREAKDOWN_PROB * (100 - d.maintenance_eff)

\* yearly_hours * UNITS_PER_MACHINE_PER_HOUR * (1 - effective_breakdown)
base_capacity(d) ==
    MulDiv(Units(yearly_hours * UNITS_PER_MACHINE_PER_HOUR),
           10000 - effective_breakdown(d), 10000)

stage_capacity(machines, base, factor) == machines * base * factor

\* A slip: a stage that puts out its capacity whatever it was fed.
stage_output_unfed(capacity, input) == capacity

\* A slip: the whole input passed on, whatever the capacity.
stage_output_uncapped(capacity, input) == input

\* A slip: max for min.
stage_output_larger(capacity, input) == Max(capacity, input)

\* A stage's output: min(cap, input)
stage_output(capacity, input) == Min(capacity, input)

\* A slip: the whole input kept, the output not taken off.
stage_wip_whole(input, output) == Max(input, 0)

\* What a stage keeps as WIP: max(input - output, 0)
stage_wip(input, output) == Max(input - output, 0)

\* A slip: every unit demanded is booked as sold, in stock or not.
sold_unchecked(yearly_demand, available_units) == yearly_demand

\* units_sold = min(yearly_demand, available_units)
sold(yearly_demand, available_units) == Min(yearly_demand, available_units)

\* A slip: the difference without the clamp at 0.
ending_unclamped(yearly_demand, available_units) == available_units - yearly_demand

\* ending_inventory = max(available_units - yearly_demand, 0)
ending(yearly_demand, available_units) == Max(available_units - yearly_demand, 0)

\* A slip: the distance between demand and stock, whichever is larger.
short_absolute(yearly_demand, available_units) ==
    IF yearly_demand >= available_units
    THEN yearly_demand - available_units
    ELSE available_units - yearly_demand

\* shortage = max(yearly_demand - available_units, 0)
short(yearly_demand, available_units) == Max(yearly_demand - available_units, 0)

\* A slip: the denominator without its floor.
cost_denominator_unfloored(units_sold) == units_sold

\* max(units_sold, 1)
cost_denominator(units_sold) == Max(units_sold, Units(1))

\* A slip: the year counter skips a year.
next_year_skipping(year) == year + 2

\* st.session_state.year += 1
next_year(year) == year + 1

\* A slip: the inflation drawn before the demand growth.
draw_order_swapped == << <<6, 12>>, <<-10, 25>> >>

\* The calls of np.random.uniform in the block, in program order, each with
\* its range in percent: demand_growth (line 106), then inflation (line 110).
draw_order == << <<-10, 25>>, <<6, 12>> >>

\* A slip: the inflation left out.
without_inflation(nominal, inflation) == nominal

\* (machine + setup + labor + holding + shortage costs) * (1 + inflation)
with_inflation(nominal, inflation) == TimesOnePlus(nominal, inflation)

\* A slip: the totals overwritten with the year's values.
store_overwriting(flowed, record, total_cost, units_sold) ==
    [ flowed EXCEPT !.results     = Append(@, record),
                    !.total_cost  = total_cost,
                    !.total_units = units_sold,
                    !.year        = next_year(@) ]

\* A slip: the record put at the head of the log.
store_prepending(flowed, record, total_cost, units_sold) ==
    [ flowed EXCEPT !.results     = <<record>> \o @,
                    !.total_cost  = @ + total_cost,
                    !.total_units = @ + units_sold,
                    !.year        = next_year(@) ]

\* A slip: the totals and the year move on, the record is not appended.
store_unlogged(flowed, record, total_cost, units_sold) ==
    [ flowed EXCEPT !.total_cost  = @ + total_cost,
                    !.total_units = @ + units_sold,
                    !.year        = next_year(@) ]

\* lines 181-203: the record is appended, the running totals grow by the
\* year's total cost and units sold, the year moves on.
store(flowed, record, total_cost, units_sold) ==
    [ flowed EXCEPT !.results     = Append(@, record),
                    !.total_cost  = @ + total_cost,
                    !.total_units = @ + units_sold,
                    !.year        = next_year(@) ]

\* The "Simulate This Year" block on session state s with decision d and the
\* two draws: the locals it computes, the session state it leaves and the
\* exception it ends with.
simulate(s, d, demand_growth, inflation) ==
    LET current_year   == s.year
        monthly_demand == TimesOnePlus(s.monthly_demand, demand_growth)
        yearly_demand  == monthly_demand * 12
        base           == base_capacity(d)
        cap_body       == stage_capacity(d.machines_body, base, BODY_FACTOR)
        cap_paint      == stage_capacity(d.machines_paint, base, PAINT_FACTOR)
        cap_engine     == stage_capacity(d.machines_engine, base, ENGINE_FACTOR)
        cap_final      == stage_capacity(d.machines_final, base, FINAL_FACTOR)
        \* Body stage
        body_output    == stage_output(cap_body, cap_body + s.wip_body)
        wip_body       == stage_wip(s.wip_body + cap_body, body_output)
        \* Paint stage
        paint_input    == body_output + s.wip_paint
        paint_output   == stage_output(cap_paint, paint_input)
        wip_paint      == stage_wip(paint_input, paint_output)
        \* Engine stage
        engine_input   == paint_output + s.wip_engine
        engine_output  == stage_output(cap_engine, engine_input)
        wip_engine     == stage_wip(engine_input, engine_output)
        \* Final stage
        final_input    == engine_output
        final_output   == stage_output(cap_final, final_input)
        production     == final_output
        \* Finished goods inventory
        available_units  == production + s.fg_inventory
        units_sold       == sold(yearly_demand, available_units)
        ending_inventory == ending(yearly_demand, available_units)
        shortage         == short(yearly_demand, available_units)
        \* Costs
        holding_cost_fg  == Cost(ending_inventory, HOLDING_COST_PER_UNIT)
        holding_cost_wip ==
            Cost(wip_body + wip_paint + wip_engine, WIP_HOLDING_COST_PER_UNIT)
        shortage_cost    == Cost(shortage, SHORTAGE_COST_PER_UNIT)
        total_cost ==
            with_inflation(machine_cost_preview(d) + setup_cost_preview(d)
                             + labor_cost_preview(d) + holding_cost_fg
                             + holding_cost_wip + shortage_cost,
                           inflation)
        denominator   == cost_denominator(units_sold)
        divides       == denominator # 0
        cost_per_unit ==
            IF divides THEN MulDiv(total_cost, Units(1), denominator) ELSE 0
        record ==
            ("Year" :> current_year)
            @@ ("Demand" :> round(yearly_demand))
            @@ ("Production" :> round(production))
            @@ ("Units Sold" :> round(units_sold))
            @@ ("FG Inventory" :> round(ending_inventory))
            @@ ("WIP Body" :> round(wip_body))
            @@ ("WIP Paint" :> round(wip_paint))
            @@ ("WIP Engine" :> round(wip_engine))
            @@ ("Machine Cost" :> machine_cost_preview(d))
            @@ ("Setup Cost" :> setup_cost_preview(d))
            @@ ("Labor Cost" :> labor_cost_preview(d))
            @@ ("Holding Cost (FG)" :> holding_cost_fg)
            @@ ("Holding Cost (WIP)" :> holding_cost_wip)
            @@ ("Shortage Cost" :> shortage_cost)
            @@ ("Inflation (%)" :> inflation)
            @@ ("Total Cost" :> total_cost)
            @@ ("Cost per Unit" :> cost_per_unit)
        \* lines 107-154: what is written before the costs are computed
        flowed ==
            [ s EXCEPT !.monthly_demand = monthly_demand,
                       !.wip_body       = wip_body,
                       !.wip_paint      = wip_paint,
                       !.wip_engine     = wip_engine,
                       !.fg_inventory   = ending_inventory ]
        \* lines 181-203: the record, the running totals, the year
        stored == store(flowed, record, total_cost, units_sold)
    IN  [ session |-> IF divides THEN stored ELSE flowed,
          raised  |-> IF divides THEN "none" ELSE "ZeroDivisionError",
          draws   |-> draw_order,
          locals  |->
            [ current_year     |-> current_year,
              decision         |-> d,
              demand_growth    |-> demand_growth,
              inflation        |-> inflation,
              yearly_demand    |-> yearly_demand,
              cap_body         |-> cap_body,
              cap_paint        |-> cap_paint,
              cap_engine       |-> cap_engine,
              cap_final        |-> cap_final,
              body_output      |-> body_output,
              paint_input      |-> paint_input,
              paint_output     |-> paint_output,
              engine_input     |-> engine_input,
              engine_output    |-> engine_output,
              final_input      |-> final_input,
              final_output     |-> final_output,
              production       |-> production,
              available_units  |-> available_units,
              units_sold       |-> units_sold,
              ending_inventory |-> ending_inventory,
              shortage         |-> shortage,
              holding_cost_fg  |-> holding_cost_fg,
              holding_cost_wip |-> holding_cost_wip,
              shortage_cost    |-> shortage_cost,
              total_cost       |-> total_cost,
              cost_per_unit    |-> cost_per_unit ] ]

\* ---------------------------------------------------------- results display

\* max(st.session_state.total_units, 1)
avg_denominator(total_units) == Max(total_units, Units(1))

\* if len(st.session_state.results) > 0: ... avg_cost = total_cost / max(total_units, 1)
display(s) ==
    LET shown       == Len(s.results) > 0
        denominator == avg_denominator(s.total_units)
        divides     == denominator # 0
    IN  [ shown    |-> shown,
          raised   |-> IF shown /\ ~divides THEN "ZeroDivisionError" ELSE "none",
          avg_cost |-> IF shown /\ divides
                       THEN MulDiv(s.total_cost, Units(1), denominator)
                       ELSE 0 ]

\* ------------------------------------------------------------ interactions

\* `last` describes the last interaction (a run of the script and the rerun
\* it asks for): the button pressed, the year the script read (current_year),
\* whether the "Simulate This Year" block ran, its locals, the ranges of the
\* random draws taken, in order, what the results display showed at the end
\* and the exception the interaction ended with.
no_run(button, current_year, shown) ==
    [ button       |-> button,
      current_year |-> current_year,
      simulated    |-> FALSE,
      draws        |-> <<>>,
      raised       |-> shown.raised,
      display      |-> shown,
      locals       |-> [ current_year |-> current_year ] ]

Init ==
    /\ session_state = init_session_state(clear(defaults))
    /\ last = no_run("none", 1, display(session_state))

\* A slip: the last year left out.
offers_decision_early(current_year) == current_year < LAST_YEAR

\* A slip: one year too many.
offers_decision_late(current_year) == current_year <= LAST_YEAR + 1

\* if current_year <= 5: ... the decision widgets and the button are rendered
offers_decision(current_year) == current_year <= LAST_YEAR

\* The "Simulate This Year" block with decision d and draws g and i, then
\* st.rerun(): the rerun renders the results display.
Simulated(d, g, i) ==
    \E run \in { simulate(session_state, d, g, i) } :
    \E shown \in { IF run.raised = "none"
                   THEN display(run.session)
                   ELSE [ shown |-> FALSE, raised |-> run.raised, avg_cost |-> 0 ] } :
        /\ session_state' = run.session
        /\ last' = [ button       |-> "simulate",
                     current_year |-> session_state.year,
                     simulated    |-> TRUE,
                     draws        |-> run.draws,
                     raised       |-> shown.raised,
                     display      |-> shown,
                     locals       |-> run.locals ]

\* "Simulate This Year" pressed, any decision of the widgets, any draws.
SimulateThisYear ==
    /\ offers_decision(session_state.year)
    /\ \E d \in Decisions, g \in DemandGrowthDraws, i \in InflationDraws :
           Simulated(d, g, i)

\* A press of "Simulate This Year" that reaches the script once the year is
\* past 5 (a second click sent before the page was redrawn): the button is
\* not rendered, so the block does not run.
SimulateWhenComplete ==
    /\ ~offers_decision(session_state.year)
    /\ session_state' = session_state
    /\ last' = no_run("simulate", session_state.year, display(session_state))

\* A run of the script with no button pressed.
Rerender ==
    /\ session_state' = session_state
    /\ last' = no_run("none", session_state.year, display(session_state))

\* "Restart Simulation": the script reaches the button after the results
\* display; st.session_state.clear(); st.rerun(), and the rerun fills the
\* defaults in.
RestartSimulation ==
    LET before == display(session_state)
        after  == IF before.raised = "none"
                  THEN init_session_state(clear(session_state))
                  ELSE session_state
    IN  /\ session_state' = after
        /\ last' = no_run("restart", session_state.year,
                          IF before.raised = "none" THEN display(after) ELSE before)

Next ==
    \/ SimulateThisYear
    \/ SimulateWhenComplete
    \/ Rerender
    \/ RestartSimulation

Spec == Init /\ [][Next]_vars

\* ------------------------------------------- the block on unvalidated input

\* The widgets keep every machine count in 1..20; the block itself checks
\* nothing.  SpecCore applies the block once, as a function, to a session
\* state the application reaches within its first OpeningYears years, with a
\* decision that may hold a machine count of 0.
OpeningYears == 2

RECURSIVE Opening(_)
Opening(n) ==
    IF n = 0
    THEN { init_session_state(clear(defaults)) }
    ELSE LET before == Opening(n - 1)
         IN  before \cup
             { simulate(s, d, g, i).session :
                 s \in { o \in before : o.year = n },
                 d \in Decisions,
                 g \in DemandGrowthDraws,
                 i \in InflationDraws }

ZeroMachineDecisions ==
    { decision(0, MaxMachines, MaxMachines, MaxMachines, 20, 50),
      decision(MaxMachines, 0, MaxMachines, MaxMachines, 20, 50),
      decision(MaxMachines, MaxMachines, 0, MaxMachines, 20, 50),
      decision(MaxMachines, MaxMachines, MaxMachines, 0, 20, 50) }

CoreDecisions == Decisions \cup ZeroMachineDecisions

InitCore ==
    /\ session_state \in Opening(OpeningYears)
    /\ last = no_run("none", session_state.year, display(session_state))

SimulateCore ==
    /\ ~last.simulated
    /\ offers_decision(session_state.year)
    /\ \E d \in CoreDecisions, g \in DemandGrowthDraws, i \in InflationDraws :
           Simulated(d, g, i)

NextCore == SimulateCore

SpecCore == InitCore /\ [][NextCore]_vars

\* ------------------------------------------------------------------ claims

\* The locals of the last "Simulate This Year" block, and those of the block
\* a step has just run.
L == last.locals

\* A step that ran the "Simulate This Year" block (every other action leaves
\* last'.simulated false).
Advanced == last'.simulated

\* C1: in every year transition ending_inventory + units_sold equals
\* production + the opening finished-goods inventory (= available_units),
\* and the ending inventory is what the session state carries forward.
C1_Conservation ==
    [][ Advanced =>
          /\ last'.locals.available_units
               = last'.locals.production + session_state.fg_inventory
          /\ last'.locals.ending_inventory + last'.locals.units_sold
               = last'.locals.production + session_state.fg_inventory
          /\ session_state'.fg_inventory = last'.locals.ending_inventory ]_vars

\* A year that opened with finished goods in stock, sold some units and
\* closed with stock left.
C1_Witness ==
    /\ last.simulated
    /\ L.available_units > L.production
    /\ L.units_sold > 0
    /\ L.ending_inventory > 0

\* C2: finished-goods inventory and every WIP buffer are >= 0 in every
\* reachable state, and every year run has ending_inventory >= 0 and
\* shortage >= 0, in its locals and in its record.
C2_NonNegative ==
    /\ session_state.fg_inventory >= 0
    /\ session_state.wip_body >= 0
    /\ session_state.wip_paint >= 0
    /\ session_state.wip_engine >= 0
    /\ last.simulated => L.ending_inventory >= 0 /\ L.shortage >= 0
    /\ \A k \in 1 .. Len(session_state.results) :
          /\ session_state.results[k]["FG Inventory"] >= 0
          /\ session_state.results[k]["WIP Body"] >= 0
          /\ session_state.results[k]["WIP Paint"] >= 0
          /\ session_state.results[k]["WIP Engine"] >= 0
          /\ session_state.results[k]["Shortage Cost"] >= 0

\* A year short of units (the clamp of ending_inventory at 0 acts) that
\* leaves units in both WIP buffers downstream of the body stage.
C2_Witness ==
    /\ last.simulated
    /\ L.shortage > 0
    /\ L.yearly_demand > L.available_units
    /\ session_state.fg_inventory = 0
    /\ session_state.wip_paint > 0
    /\ session_state.wip_engine > 0

\* C3: every run of the "Simulate This Year" block increases year by exactly
\* 1 and appends exactly one record, and in every reachable state the length
\* of the year log is year - 1.
C3_YearLog ==
    /\ [](Len(session_state.results) = session_state.year - 1)
    /\ [][ Advanced =>
             /\ session_state'.year = session_state.year + 1
             /\ Len(session_state'.results) = Len(session_state.results) + 1
             /\ last'.raised = "none" ]_vars

\* The fifth year has just been simulated.
C3_Witness ==
    /\ last.simulated
    /\ session_state.year = 6
    /\ Len(session_state.results) = 5

\* C4 as claimed: a press of "Simulate This Year" when current_year > 5
\* fails with InvalidStateError.
C4_RaisesInvalidState ==
    (last.button = "simulate" /\ last.current_year > LAST_YEAR)
        => last.raised = "InvalidStateError"

\* C4 as amended: when year > 5 a press of "Simulate This Year" runs nothing
\* and raises nothing, every interaction but a restart leaves the session
\* state (year, demand level, finished goods, WIP, totals, year log)
\* unchanged, and the only way out of year > 5 is a restart, to year 1.
C4_CompleteIsTerminal ==
    [][ session_state.year > LAST_YEAR =>
          /\ ~last'.simulated
          /\ last'.raised = "none"
          /\ last'.button # "restart" => session_state' = session_state
          /\ session_state' # session_state =>
                last'.button = "restart" /\ session_state'.year = 1 ]_vars

\* The press that arrives when the simulation is complete.
C4_Witness ==
    /\ last.button = "simulate"
    /\ last.current_year > LAST_YEAR
    /\ session_state.year = last.current_year
    /\ Len(session_state.results) = 5

\* C5: "Restart Simulation" can be pressed in every state, and the session
\* state after it is year 1, monthly demand 10000, finished goods 0, every
\* WIP buffer 0, an empty year log and running totals 0 (so a second restart
\* changes nothing).
C5_Reset ==
    /\ [](ENABLED RestartSimulation)
    /\ [][ last'.button = "restart" =>
             session_state' =
                [ year           |-> 1,
                  monthly_demand |-> Units(10000),
                  fg_inventory   |-> 0,
                  wip_body       |-> 0,
                  wip_paint      |-> 0,
                  wip_engine     |-> 0,
                  results        |-> <<>>,
                  total_cost     |-> 0,
                  total_units    |-> 0 ] ]_vars

\* A restart pressed when the simulation was complete.
C5_Witness ==
    /\ last.button = "restart"
    /\ last.current_year = 6
    /\ session_state.year = 1
    /\ session_state.results = <<>>

\* C6 as claimed: nothing is lost in the pipeline: the body stage's output
\* plus the opening WIP buffers equals production plus the closing WIP
\* buffers.
C6_PipelineConserves ==
    [][ Advanced =>
          last'.locals.body_output
            + session_state.wip_body + session_state.wip_paint
            + session_state.wip_engine
          = last'.locals.production
            + session_state'.wip_body + session_state'.wip_paint
            + session_state'.wip_engine ]_vars

\* C7: units_sold = min(demand, available), ending_inventory =
\* max(available - demand, 0), shortage = max(demand - available, 0): with
\* demand covered, demand is sold and the rest is kept; otherwise all that is
\* available is sold, nothing is kept and the rest of demand is short.  So
\* the two are never both positive, and both are zero exactly when available
\* = demand.  Inventory 0, production 8000, demand 10000 gives 8000, 0, 2000.
C7_SalesResolver ==
    /\ last.simulated =>
          /\ IF L.yearly_demand <= L.available_units
             THEN /\ L.units_sold = L.yearly_demand
                  /\ L.ending_inventory = L.available_units - L.yearly_demand
                  /\ L.shortage = 0
             ELSE /\ L.units_sold = L.available_units
                  /\ L.ending_inventory = 0
                  /\ L.shortage = L.yearly_demand - L.available_units
          /\ L.shortage > 0 => L.ending_inventory = 0
          /\ ~(L.shortage > 0 /\ L.ending_inventory > 0)
          /\ (L.shortage = 0 /\ L.ending_inventory = 0)
                <=> L.available_units = L.yearly_demand
    /\ sold(Units(10000), Units(0) + Units(8000)) = Units(8000)
    /\ ending(Units(10000), Units(0) + Units(8000)) = 0
    /\ short(Units(10000), Units(0) + Units(8000)) = Units(2000)

\* A year that opened with stock and still fell short of demand.
C7_Witness ==
    /\ last.simulated
    /\ L.available_units > L.production
    /\ L.shortage > 0
    /\ L.units_sold = L.available_units

\* The stage with the smallest capacity, the earliest on a tie.
Bottleneck(cap_body, cap_paint, cap_engine, cap_final) ==
    LET least == Min(Min(cap_body, cap_paint), Min(cap_engine, cap_final))
    IN  IF cap_body = least THEN "body"
        ELSE IF cap_paint = least THEN "paint"
        ELSE IF cap_engine = least THEN "engine"
        ELSE "final"

\* C8 as claimed: every year's record names the bottleneck stage, the stage
\* with the smallest capacity (the earliest on a tie); capacities 480, 320,
\* 576, 640 give paint.
C8_BottleneckReported ==
    /\ Bottleneck(480, 320, 576, 640) = "paint"
    /\ \A k \in 1 .. Len(session_state.results) :
          "Bottleneck" \in DOMAIN session_state.results[k]
    /\ (last.simulated /\ last.raised = "none") =>
          session_state.results[Len(session_state.results)]["Bottleneck"]
            = Bottleneck(L.cap_body, L.cap_paint, L.cap_engine, L.cap_final)

\* C9: cost_per_unit = total_cost / max(units_sold, 1) (to the rounding of
\* the money grid), so no year run ends in a division error and a year that
\* sells less than one unit has cost_per_unit = total_cost; the average cost
\* per unit of the results display floors the running total of units sold
\* the same way.
C9_DivisionGuard ==
    /\ last.raised = "none"
    /\ last.simulated =>
          LET floored == IF L.units_sold >= Units(1) THEN L.units_sold ELSE Units(1)
              whole   == (L.total_cost \div floored) * Units(1)
          IN  /\ whole <= L.cost_per_unit
              /\ L.cost_per_unit <= whole + Units(1)
              /\ L.units_sold < Units(1) => L.cost_per_unit = L.total_cost
    /\ last.display.shown =>
          LET floored == IF session_state.total_units >= Units(1)
                         THEN session_state.total_units ELSE Units(1)
              whole   == (session_state.total_cost \div floored) * Units(1)
          IN  /\ whole <= last.display.avg_cost
              /\ last.display.avg_cost <= whole + Units(1)
              /\ session_state.total_units < Units(1) =>
                    last.display.avg_cost = session_state.total_cost

\* A first year that sold nothing: both floors act.
C9_Witness ==
    /\ last.simulated
    /\ L.units_sold = 0
    /\ L.total_cost > 0
    /\ L.cost_per_unit = L.total_cost
    /\ last.display.shown
    /\ session_state.total_units = 0
    /\ last.display.avg_cost = session_state.total_cost

\* The decision of the block a step has just run has a stage with no machine.
ZeroMachines(d) ==
    \/ d.machines_body = 0
    \/ d.machines_paint = 0
    \/ d.machines_engine = 0
    \/ d.machines_final = 0

\* C10 as claimed: with zero machines at any stage the block raises nothing,
\* the year's production is zero and the demand not covered by the opening
\* finished-goods inventory is the shortage.
C10_ZeroMachinesZeroProduction ==
    [][ (Advanced /\ ZeroMachines(last'.locals.decision)) =>
          /\ last'.raised = "none"
          /\ last'.locals.production = 0
          /\ last'.locals.shortage
               = Max(last'.locals.yearly_demand - session_state.fg_inventory, 0) ]_vars

\* C10 as amended: with zero machines at a stage the block raises nothing,
\* that stage's capacity is zero, and production is at most the opening WIP
\* held downstream of that stage (paint and engine WIP for body, engine WIP
\* for paint, none for engine and final); the demand not covered by
\* production plus opening finished-goods inventory is the shortage, costed
\* in the year's record.
C10_ZeroMachines ==
    [][ (Advanced /\ ZeroMachines(last'.locals.decision)) =>
          LET l == last'.locals
              d == l.decision
          IN  /\ last'.raised = "none"
              /\ Len(session_state'.results) = Len(session_state.results) + 1
              /\ d.machines_body = 0 =>
                    /\ l.cap_body = 0
                    /\ l.production
                         <= session_state.wip_paint + session_state.wip_engine
              /\ d.machines_paint = 0 =>
                    /\ l.cap_paint = 0
                    /\ l.production <= session_state.wip_engine
              /\ d.machines_engine = 0 => l.cap_engine = 0 /\ l.production = 0
              /\ d.machines_final = 0 => l.cap_final = 0 /\ l.production = 0
              /\ l.shortage
                   = Max(l.yearly_demand
                           - (l.production + session_state.fg_inventory), 0)
              /\ session_state'.results[Len(session_state'.results)]["Shortage Cost"]
                   = (l.shortage * SHORTAGE_COST_PER_UNIT) \div Units(1) ]_vars

\* No body machine, and yet units are produced, out of the opening WIP.
C10_Witness ==
    /\ last.simulated
    /\ L.decision.machines_body = 0
    /\ L.cap_body = 0
    /\ L.production > 0
    /\ L.shortage > 0

\* C11: in every year transition each of paint, engine and final puts out
\* exactly the smaller of its capacity and its input, the input being the
\* upstream stage's output plus the stage's own opening WIP (the final stage
\* has no WIP buffer): never more than the capacity, never more than the
\* input, one of the two, and the input when the capacity exceeds it.
C11_StageOutput ==
    [][ Advanced =>
          LET l == last'.locals
              Bounded(output, capacity, input) ==
                  /\ output <= capacity
                  /\ output <= input
                  /\ output = capacity \/ output = input
                  /\ capacity > input => output = input
          IN  /\ l.paint_input = l.body_output + session_state.wip_paint
              /\ l.engine_input = l.paint_output + session_state.wip_engine
              /\ l.final_input = l.engine_output
              /\ Bounded(l.paint_output, l.cap_paint, l.paint_input)
              /\ Bounded(l.engine_output, l.cap_engine, l.engine_input)
              /\ Bounded(l.final_output, l.cap_final, l.final_input)
              /\ l.production = l.final_output ]_vars

\* The paint stage fed by its opening WIP and still below its capacity (its
\* output is its input), the engine stage at its capacity.
C11_Witness ==
    /\ last.simulated
    /\ L.paint_input > L.body_output
    /\ L.paint_input < L.cap_paint
    /\ L.paint_output = L.paint_input
    /\ L.engine_input > L.cap_engine
    /\ L.engine_output = L.cap_engine

\* C12: a year transition is atomic. In every state between two runs of the
\* script no run has ended in an exception, and the demand level, the WIP
\* buffers, the finished-goods inventory, the running totals, the year log
\* and the year counter all stand at the same number n of completed years:
\* the log has n records, the year is n + 1, with n = 0 the rest are the
\* defaults, and with n > 0 the rest are what the n-th record reports.
C12_AtomicYear ==
    LET s == session_state
        n == Len(s.results)
    IN  /\ last.raised = "none"
        /\ s.year = n + 1
        /\ n = 0 =>
             /\ s.monthly_demand = Units(BASE_MONTHLY_DEMAND)
             /\ s.fg_inventory = 0
             /\ s.wip_body = 0 /\ s.wip_paint = 0 /\ s.wip_engine = 0
             /\ s.total_cost = 0 /\ s.total_units = 0
        /\ n > 0 =>
             LET r == s.results[n]
             IN  /\ r["Year"] = n
                 /\ r["Demand"] = round(s.monthly_demand * 12)
                 /\ r["FG Inventory"] = round(s.fg_inventory)
                 /\ r["WIP Body"] = round(s.wip_body)
                 /\ r["WIP Paint"] = round(s.wip_paint)
                 /\ r["WIP Engine"] = round(s.wip_engine)
                 /\ s.total_cost > 0
                 /\ s.total_units > 0
                 /\ (last.simulated =>
                       /\ L.current_year = n
                       /\ s.fg_inventory = L.ending_inventory
                       /\ s.monthly_demand * 12 = L.yearly_demand)

\* Two years done, the second just simulated with demand moved off its
\* default and stock left in the paint buffer and in finished goods.
C12_Witness ==
    /\ last.simulated
    /\ Len(session_state.results) = 2
    /\ session_state.year = 3
    /\ session_state.monthly_demand # Units(BASE_MONTHLY_DEMAND)
    /\ session_state.wip_paint > 0
    /\ session_state.fg_inventory > 0

\* C13: every year transition takes exactly two draws, first the demand
\* growth from [-0.10, 0.25], then the inflation from [0.06, 0.12], and the
\* values the year is computed with lie in those ranges; a run of the script
\* that does not execute the Simulate block (the year past 5, a restart, a
\* plain re-render) takes no draw.
C13_TwoDraws ==
    /\ last.simulated =>
         /\ Len(last.draws) = 2
         /\ last.draws[1] = <<-10, 25>>
         /\ last.draws[2] = <<6, 12>>
         /\ L.demand_growth >= last.draws[1][1]
         /\ L.demand_growth <= last.draws[1][2]
         /\ L.inflation >= last.draws[2][1]
         /\ L.inflation <= last.draws[2][2]
         /\ last.button = "simulate"
         /\ offers_decision(last.current_year)
    /\ ~last.simulated => last.draws = <<>>
    /\ last.button \in {"none", "restart"} => ~last.simulated
    /\ ~offers_decision(last.current_year) => ~last.simulated

\* A year simulated with the demand growth at the top of its range and the
\* inflation at the bottom of its range.
C13_Witness ==
    /\ last.simulated
    /\ L.demand_growth = 25
    /\ L.inflation = 6
    /\ last.draws = draw_order

\* C14: after every year transition the year's total cost is the sum of the
\* machine, setup, labor, finished-goods holding, WIP holding and shortage
\* costs times (1 + the inflation drawn for that year), to the nearest rupee;
\* the finished-goods holding cost is the rate times the year's ending
\* inventory, the WIP holding cost the rate times the sum of the closing WIP
\* buffers, the shortage cost the rate times the units short. Nothing of an
\* earlier year's inflation enters.
C14_TotalCost ==
    last.simulated =>
        LET d        == L.decision
            machines == d.machines_body + d.machines_paint
                          + d.machines_engine + d.machines_final
            machine  == MACHINE_COST_PER_HOUR * machines * (AVAILABLE_HOURS_MONTH * 12)
            setup    == SETUP_COST_PER_MACHINE * machines
            labor    == LABOR_COST_PER_HOUR * d.overtime * 12
            closing  == session_state.wip_body + session_state.wip_paint
                          + session_state.wip_engine
            nominal  == machine + setup + labor + L.holding_cost_fg
                          + L.holding_cost_wip + L.shortage_cost
            factor   == 100 + L.inflation
            \* total_cost * 100 against nominal * factor, split at the
            \* hundreds of nominal to stay within the integers
            rest     == L.total_cost - (nominal \div 100) * factor
        IN  /\ L.holding_cost_fg * Units(1) = L.ending_inventory * HOLDING_COST_PER_UNIT
            /\ L.ending_inventory = session_state.fg_inventory
            /\ L.holding_cost_wip * Units(1) = closing * WIP_HOLDING_COST_PER_UNIT
            /\ L.shortage_cost * Units(1) = L.shortage * SHORTAGE_COST_PER_UNIT
            /\ rest * 100 - (nominal % 100) * factor >= -50
            /\ rest * 100 - (nominal % 100) * factor <= 50
            /\ L.total_cost > nominal

\* A year with finished goods and WIP both held at its close, computed with
\* an inflation that differs from the one drawn the year before.
C14_Witness ==
    /\ last.simulated
    /\ Len(session_state.results) >= 2
    /\ L.holding_cost_fg > 0
    /\ L.holding_cost_wip > 0
    /\ session_state.results[Len(session_state.results) - 1]["Inflation (%)"] # L.inflation
    /\ session_state.results[Len(session_state.results)]["Total Cost"] = L.total_cost

\* C15: the year log is append-only and ordered oldest first. In every
\* state the i-th record has Year = i; a year transition leaves the records
\* already in the log as they were and appends one record whose Year is the
\* year the transition started in; any other step that changes the log is a
\* restart, which empties it.
C15_AppendOnly ==
    /\ [](\A i \in 1..Len(session_state.results) :
              session_state.results[i]["Year"] = i)
    /\ [][ Advanced =>
             /\ Len(session_state.results') = Len(session_state.results) + 1
             /\ SubSeq(session_state.results', 1, Len(session_state.results))
                  = session_state.results
             /\ session_state.results'[Len(session_state.results')]["Year"]
                  = session_state.year ]_vars
    /\ [][ (~Advanced /\ session_state.results' # session_state.results) =>
             /\ last'.button = "restart"
             /\ session_state.results' = <<>> ]_vars

\* A third record just appended behind the records of years 1 and 2.
C15_Witness ==
    /\ last.simulated
    /\ Len(session_state.results) = 3
    /\ session_state.results[1]["Year"] = 1
    /\ session_state.results[3]["Year"] = 3
    /\ L.current_year = 3

\* C16: in every state the year is between 1 and 6 and the log holds at most
\* 5 records; the year is 6 exactly when 5 years have been simulated since
\* the start or the last restart; the button is offered in every year up to
\* 5 and in none after, a press of it is a year transition in every year up
\* to 5 and in none after, and each transition moves the year up by exactly
\* one, so that five of them in a row from year 1 end at year 6 and a run
\* that keeps taking them cannot stay below it.
C16_FiveYears ==
    /\ [](/\ session_state.year >= 1
          /\ session_state.year <= LAST_YEAR + 1
          /\ Len(session_state.results) <= LAST_YEAR
          /\ session_state.year = LAST_YEAR + 1
               <=> Len(session_state.results) = LAST_YEAR
          /\ session_state.year <= LAST_YEAR
               <=> offers_decision(session_state.year))
    /\ [][ last'.button = "simulate" =>
             (Advanced <=> session_state.year <= LAST_YEAR) ]_vars
    /\ [][ Advanced =>
             /\ session_state.year <= LAST_YEAR
             /\ session_state.year' = session_state.year + 1
             /\ last'.current_year = Len(session_state.results) + 1 ]_vars

\* The fifth transition in a row: the years 1 to 5 are all in the log, the
\* year stands at 6 and the button is no longer offered.
C16_Witness ==
    /\ last.simulated
    /\ L.current_year = LAST_YEAR
    /\ session_state.year = LAST_YEAR + 1
    /\ \A y \in 1..LAST_YEAR : session_state.results[y]["Year"] = y
    /\ ~offers_decision(session_state.year)

\* C17: the body-stage WIP buffer is 0 in every state. In every year
\* transition the body stage puts out exactly its capacity, the buffer is
\* left as it was, the record reports a body WIP of 0 and the WIP holding
\* cost is the rate times the paint and engine buffers alone.
C17_NoBodyWip ==
    /\ [](session_state.wip_body = 0)
    /\ [][ Advanced =>
             LET l == last'.locals
                 r == session_state.results'[Len(session_state.results')]
             IN  /\ l.body_output = l.cap_body
                 /\ l.paint_input = l.cap_body + session_state.wip_paint
                 /\ session_state.wip_body' = session_state.wip_body
                 /\ r["WIP Body"] = 0
                 /\ l.holding_cost_wip * Units(1)
                      = (session_state.wip_paint' + session_state.wip_engine')
                          * WIP_HOLDING_COST_PER_UNIT ]_vars

\* The body stage out-produces the paint stage: the surplus waits in the
\* paint buffer and is costed, the body buffer stays empty.
C17_Witness ==
    /\ last.simulated
    /\ L.body_output = L.cap_body
    /\ L.body_output > L.paint_output
    /\ session_state.wip_paint > 0
    /\ L.holding_cost_wip > 0
    /\ session_state.wip_body = 0

\* The sum of one column of the year log.
RECURSIVE SumColumn(_, _)
SumColumn(log, column) ==
    IF log = <<>> THEN 0
    ELSE log[Len(log)][column] + SumColumn(SubSeq(log, 1, Len(log) - 1), column)

\* The distance between two numbers.
Distance(a, b) == IF a >= b THEN a - b ELSE b - a

\* C18: the running totals are the sums over the completed years of the
\* year's units sold and of the year's total cost, as computed and not as
\* rounded for the log. They are 0 with an empty log; every year transition
\* adds the year's units sold and total cost, neither negative, so neither
\* total ever decreases under a transition and neither is ever negative; and
\* each total stays within the rounding of the records (half a unit, half a
\* rupee a year) of the sum of the logged column.
C18_RunningTotals ==
    /\ [](LET s == session_state
              n == Len(s.results)
          IN  /\ s.total_units >= 0
              /\ s.total_cost >= 0
              /\ n = 0 => (s.total_units = 0 /\ s.total_cost = 0)
              /\ 2 * Distance(s.total_units,
                              Units(SumColumn(s.results, "Units Sold")))
                   <= n * Units(1)
              /\ 2 * Distance(s.total_cost, SumColumn(s.results, "Total Cost"))
                   <= n)
    /\ [][ Advanced =>
             LET l == last'.locals
             IN  /\ l.units_sold >= 0
                 /\ l.total_cost >= 0
                 /\ session_state.total_units'
                      = session_state.total_units + l.units_sold
                 /\ session_state.total_cost'
                      = session_state.total_cost + l.total_cost
                 /\ session_state.total_units' >= session_state.total_units
                 /\ session_state.total_cost' >= session_state.total_cost ]_vars

\* The third year added to totals that already hold two years, with a
\* units-sold figure that the log rounds.
C18_Witness ==
    /\ last.simulated
    /\ Len(session_state.results) = 3
    /\ session_state.total_units > L.units_sold
    /\ session_state.total_cost > L.total_cost
    /\ L.units_sold % Units(1) # 0

\* C19: a year that opens with all three WIP buffers at zero (year 1, the
\* first year after a restart, any year after a year that left no WIP)
\* produces the minimum of the four stage capacities: no more than any of
\* them and as much as one of them. Every year, whatever the WIP, produces
\* no more than the engine-stage capacity and no more than the final-stage
\* capacity.
C19_CapacityOnly ==
    [][ Advanced =>
          LET l    == last'.locals
              caps == { l.cap_body, l.cap_paint, l.cap_engine, l.cap_final }
          IN  /\ l.production <= l.cap_engine
              /\ l.production <= l.cap_final
              /\ ( /\ session_state.wip_body = 0
                   /\ session_state.wip_paint = 0
                   /\ session_state.wip_engine = 0 )
                 => /\ l.production \in caps
                    /\ \A c \in caps : l.production <= c ]_vars

\* Year 1, every buffer empty at its opening: the final stage is the
\* narrowest of the four and sets the production.
C19_Witness ==
    /\ last.simulated
    /\ L.current_year = 1
    /\ L.production = L.cap_final
    /\ L.cap_final < L.cap_engine
    /\ L.cap_final < L.cap_paint
    /\ L.cap_paint < L.cap_body
    /\ L.paint_input = L.body_output
    /\ L.engine_input = L.paint_output

====
